---- MODULE Spec2Model ----
\* The rcsh grammar (a rust-peg grammar over str) as pure functions of
\* (input, position), and the entry rules applied to bounded inputs.
\*   src/rcsh/src/lib.rs : the grammar whose Arg borrows slices of the input
\*   src/src/lib.rs      : the same rules with Arg owning String copies
EXTENDS Integers, Sequences, FiniteSets, TLC

\* ---------------------------------------------------------------- bounds
\* Longest input of the exhaustive specification.
MaxLen == 4
\* Most arguments of a generated list.
MaxArgs == 3
\* Longest input of the word-level specification.
MaxWordLen == 3

\* ------------------------------------------------------ character classes
\* The characters inputs are drawn from (each a one-character string).
Alphabet == {"a", "%", "=", "$", "'", "(", ")", " ", "\t", "\n", "#"}

\* The characters of the word-level inputs: every special character, the
\* quote and some ordinary ones.
WordAlphabet ==
    {"#", "$", "|", "&", ";", "(", ")", "<", ">", " ", "\t", "\n",
     "'", "a", "=", "-", ".", "/"}

\* rule _() = quiet!{ [' ' | '\t'] }
HSpace == {" ", "\t"}

\* The set negated in rule chr().
Special == {"#", "$", "|", "&", ";", "(", ")", "<", ">", " ", "\t", "\n"}

\* ['a'..='z' | 'A'..='Z' | '0'..='9' | '%' | '*' | '_' | '-']
NameChar ==
    {"a","b","c","d","e","f","g","h","i","j","k","l","m",
     "n","o","p","q","r","s","t","u","v","w","x","y","z",
     "A","B","C","D","E","F","G","H","I","J","K","L","M",
     "N","O","P","Q","R","S","T","U","V","W","X","Y","Z",
     "0","1","2","3","4","5","6","7","8","9",
     "%", "*", "_", "-"}

\* ------------------------------------------------------------ rule results
\* RuleResult::Matched(pos, value) and RuleResult::Failed of the generated
\* parser; pos counts the characters consumed so far.
Matched(pos, val) == [ok |-> TRUE, pos |-> pos, val |-> val]

Failed == [ok |-> FALSE, pos |-> 0, val |-> <<>>]

\* The result of a public entry rule: Ok(value) or Err(ParseError).
Ok(val) == [tag |-> "Ok", val |-> val]

Err == [tag |-> "Err", val |-> <<>>]

NotCalled == [tag |-> "None", val |-> <<>>]

\* A public rule succeeds only when the match ends at the end of input.
Entry(s, r) == IF r.ok /\ r.pos = Len(s) THEN Ok(r.val) ELSE Err

\* ------------------------------------------- src/rcsh/src/lib.rs (borrowed)
\* ast::Arg<'a>: Var(&'a str) | Word(&'a str); a &str slice of the input is
\* the half-open range of offsets [lo, hi).
Var(lo, hi) == [tag |-> "Var", lo |-> lo, hi |-> hi]

Word(lo, hi) == [tag |-> "Word", lo |-> lo, hi |-> hi]

Assignment(n, x) == [tag |-> "Assignment", head |-> n, list |-> x]

Command(n, x) == [tag |-> "Command", head |-> n, list |-> x]

\* rule _()
parse_ws(s, pos) ==
    IF pos < Len(s) /\ s[pos + 1] \in HSpace THEN Matched(pos + 1, <<>>) ELSE Failed

\* chr() with '=' taken for a special character.
parse_chr_eq_special(s, pos) ==
    IF pos < Len(s) /\ s[pos + 1] \notin (Special \cup {"="})
    THEN Matched(pos + 1, <<>>)
    ELSE Failed

\* rule chr() = ![special] [_]
parse_chr(s, pos) ==
    IF pos < Len(s) /\ s[pos + 1] \notin Special THEN Matched(pos + 1, <<>>) ELSE Failed

\* chr()* : the position after the longest run of chr() from pos.
RECURSIVE chr_star(_, _)
chr_star(s, pos) ==
    LET r == parse_chr(s, pos)
    IN  IF r.ok THEN chr_star(s, r.pos) ELSE pos

\* pub rule word_unquoted() = w:$(chr()+) { Word(w) }
parse_word_unquoted(s, pos) ==
    LET end == chr_star(s, pos)
    IN  IF end > pos THEN Matched(end, Word(pos, end)) ELSE Failed

\* (!"'" [_])* : the position after the longest run of non-quote characters.
RECURSIVE notquote_star(_, _)
notquote_star(s, pos) ==
    IF pos < Len(s) /\ s[pos + 1] # "'" THEN notquote_star(s, pos + 1) ELSE pos

\* word_quoted() whose inner run also ends at a special character.
parse_word_quoted_specials_end(s, pos) ==
    IF pos < Len(s) /\ s[pos + 1] = "'"
    THEN LET end == chr_star(s, pos + 1)
         IN  IF end < Len(s) /\ s[end + 1] = "'"
             THEN Matched(end + 1, Word(pos + 1, end))
             ELSE Failed
    ELSE Failed

\* pub rule word_quoted() = "'" s:$((!"'" [_])*) "'" { Word(s) }
parse_word_quoted(s, pos) ==
    IF pos < Len(s) /\ s[pos + 1] = "'"
    THEN LET end == notquote_star(s, pos + 1)
         IN  IF end < Len(s) /\ s[end + 1] = "'"
             THEN Matched(end + 1, Word(pos + 1, end))
             ELSE Failed
    ELSE Failed

\* word() trying word_unquoted() from where word_quoted() gave up, not from
\* the position word() was entered at.
parse_word_no_restore(s, pos) ==
    LET q == parse_word_quoted(s, pos)
        left == IF pos < Len(s) /\ s[pos + 1] = "'" THEN notquote_star(s, pos + 1) ELSE pos
    IN  IF q.ok THEN q ELSE parse_word_unquoted(s, left)

\* word() with its alternatives in the other order.
parse_word_swapped(s, pos) ==
    LET u == parse_word_unquoted(s, pos)
    IN  IF u.ok THEN u ELSE parse_word_quoted(s, pos)

\* pub rule word() = word_quoted() / word_unquoted()
parse_word(s, pos) ==
    LET q == parse_word_quoted(s, pos)
    IN  IF q.ok THEN q ELSE parse_word_unquoted(s, pos)

\* [name characters]* : the position after the longest run of name characters.
RECURSIVE namechar_star(_, _)
namechar_star(s, pos) ==
    IF pos < Len(s) /\ s[pos + 1] \in NameChar THEN namechar_star(s, pos + 1) ELSE pos

\* name() accepting the empty match (a `*` written for the `+`).
parse_name_star(s, pos) ==
    LET end == namechar_star(s, pos)
    IN  Matched(end, [lo |-> pos, hi |-> end])

\* pub rule name() -> &str = n:$([name characters]+) { n }
parse_name(s, pos) ==
    LET end == namechar_star(s, pos)
    IN  IF end > pos THEN Matched(end, [lo |-> pos, hi |-> end]) ELSE Failed

\* pub rule reference() = "$" v:name() { Var(v) }
parse_reference(s, pos) ==
    IF pos < Len(s) /\ s[pos + 1] = "$"
    THEN LET v == parse_name(s, pos + 1)
         IN  IF v.ok THEN Matched(v.pos, Var(v.val.lo, v.val.hi)) ELSE Failed
    ELSE Failed

\* pub rule arg() = reference() / word()
parse_arg(s, pos) ==
    LET r == parse_reference(s, pos)
    IN  IF r.ok THEN r ELSE parse_word(s, pos)

\* arg() ** _ : the loop of the generated code. Before every element but the
\* first the separator is parsed; when the separator or the element fails the
\* loop ends at the position after the last element.
RECURSIVE args_loop(_, _, _)
args_loop(s, pos, acc) ==
    LET sep == IF acc = <<>> THEN Matched(pos, <<>>) ELSE parse_ws(s, pos)
    IN  IF ~sep.ok THEN Matched(pos, acc)
        ELSE LET e == parse_arg(s, sep.pos)
             IN  IF e.ok THEN args_loop(s, e.pos, Append(acc, e.val))
                 ELSE Matched(pos, acc)

parse_args(s, pos) == args_loop(s, pos, <<>>)

\* pub rule list() = "(" x:(arg() ** _) ")" { x } / x:(arg() ** _) { x }
parse_list(s, pos) ==
    LET x == parse_args(s, pos + 1)
        paren == IF pos < Len(s) /\ s[pos + 1] = "("
                    /\ x.pos < Len(s) /\ s[x.pos + 1] = ")"
                 THEN Matched(x.pos + 1, x.val)
                 ELSE Failed
    IN  IF paren.ok THEN paren ELSE parse_args(s, pos)

\* assignment() with the whitespace around '=' optional.
parse_assignment_optional_ws(s, pos) ==
    LET n == parse_arg(s, pos)
        w1 == parse_ws(s, n.pos)
        p1 == IF w1.ok THEN w1.pos ELSE n.pos
        w2 == parse_ws(s, p1 + 1)
        x == parse_list(s, IF w2.ok THEN w2.pos ELSE p1 + 1)
    IN  IF n.ok /\ p1 < Len(s) /\ s[p1 + 1] = "="
        THEN Matched(x.pos, Assignment(n.val, x.val))
        ELSE Failed

\* assignment() with the target parsed by word() alone (no reference).
parse_assignment_word_target(s, pos) ==
    LET n == parse_word(s, pos)
        w1 == parse_ws(s, n.pos)
        w2 == parse_ws(s, w1.pos + 1)
        x == parse_list(s, w2.pos)
    IN  IF n.ok /\ w1.ok /\ w1.pos < Len(s) /\ s[w1.pos + 1] = "=" /\ w2.ok
        THEN Matched(x.pos, Assignment(n.val, x.val))
        ELSE Failed

\* pub rule assignment() = n:arg() _ "=" _ x:list() { Assignment(n, x) }
parse_assignment(s, pos) ==
    LET n == parse_arg(s, pos)
        w1 == parse_ws(s, n.pos)
        w2 == parse_ws(s, w1.pos + 1)
        x == parse_list(s, w2.pos)
    IN  IF n.ok /\ w1.ok /\ w1.pos < Len(s) /\ s[w1.pos + 1] = "=" /\ w2.ok
        THEN Matched(x.pos, Assignment(n.val, x.val))
        ELSE Failed

\* command() with the name parsed by word() alone (no reference).
parse_command_word_name(s, pos) ==
    LET n == parse_word(s, pos)
        w == parse_ws(s, n.pos)
        x == parse_list(s, w.pos)
    IN  IF n.ok /\ w.ok THEN Matched(x.pos, Command(n.val, x.val)) ELSE Failed

\* command() with the whitespace after the name optional.
parse_command_optional_ws(s, pos) ==
    LET n == parse_arg(s, pos)
        w == parse_ws(s, n.pos)
        x == parse_list(s, IF w.ok THEN w.pos ELSE n.pos)
    IN  IF n.ok THEN Matched(x.pos, Command(n.val, x.val)) ELSE Failed

\* pub rule command() = n:arg() _ x:list() { Command(n, x) }
parse_command(s, pos) ==
    LET n == parse_arg(s, pos)
        w == parse_ws(s, n.pos)
        x == parse_list(s, w.pos)
    IN  IF n.ok /\ w.ok THEN Matched(x.pos, Command(n.val, x.val)) ELSE Failed

\* The public functions the grammar generates.
word_unquoted(s) == Entry(s, parse_word_unquoted(s, 0))

word_quoted(s) == Entry(s, parse_word_quoted(s, 0))

word(s) == Entry(s, parse_word(s, 0))

name(s) == Entry(s, parse_name(s, 0))

reference(s) == Entry(s, parse_reference(s, 0))

arg(s) == Entry(s, parse_arg(s, 0))

list(s) == Entry(s, parse_list(s, 0))

assignment(s) == Entry(s, parse_assignment(s, 0))

command(s) == Entry(s, parse_command(s, 0))

\* &input[lo..hi]: the text a borrowed slice denotes.
slice(s, lo, hi) == SubSeq(s, lo + 1, hi)

\* ------------------------------------------------ src/src/lib.rs (owned)
\* ast::Arg: Var(String) | Word(String); the text is a copy of the match.
OwnedVar(text) == [tag |-> "Var", text |-> text]

OwnedWord(text) == [tag |-> "Word", text |-> text]

\* str::to_string on the match [lo, hi): a fresh String holding its characters.
to_string(s, lo, hi) == [i \in 1..(hi - lo) |-> s[lo + i]]

\* rule _()
owned_parse_ws(s, pos) ==
    IF pos < Len(s) /\ s[pos + 1] \in {" ", "\t"} THEN Matched(pos + 1, <<>>) ELSE Failed

\* rule chr() = ![special] [_]
owned_parse_chr(s, pos) ==
    IF pos < Len(s)
       /\ s[pos + 1] \notin {"#", "$", "|", "&", ";", "(", ")", "<", ">", " ", "\t", "\n"}
    THEN Matched(pos + 1, <<>>)
    ELSE Failed

RECURSIVE owned_chr_star(_, _)
owned_chr_star(s, pos) ==
    LET r == owned_parse_chr(s, pos)
    IN  IF r.ok THEN owned_chr_star(s, r.pos) ELSE pos

\* pub rule word_unquoted() = w:$(chr()+) { Word(w.to_string()) }
owned_parse_word_unquoted(s, pos) ==
    LET end == owned_chr_star(s, pos)
    IN  IF end > pos THEN Matched(end, OwnedWord(to_string(s, pos, end))) ELSE Failed

RECURSIVE owned_notquote_star(_, _)
owned_notquote_star(s, pos) ==
    IF pos < Len(s) /\ s[pos + 1] # "'" THEN owned_notquote_star(s, pos + 1) ELSE pos

\* word_quoted() copying the match with its delimiters.
owned_parse_word_quoted_delims(s, pos) ==
    IF pos < Len(s) /\ s[pos + 1] = "'"
    THEN LET end == owned_notquote_star(s, pos + 1)
         IN  IF end < Len(s) /\ s[end + 1] = "'"
             THEN Matched(end + 1, OwnedWord(to_string(s, pos, end + 1)))
             ELSE Failed
    ELSE Failed

\* pub rule word_quoted() = "'" s:$((!"'" [_])*) "'" { Word(s.to_string()) }
owned_parse_word_quoted(s, pos) ==
    IF pos < Len(s) /\ s[pos + 1] = "'"
    THEN LET end == owned_notquote_star(s, pos + 1)
         IN  IF end < Len(s) /\ s[end + 1] = "'"
             THEN Matched(end + 1, OwnedWord(to_string(s, pos + 1, end)))
             ELSE Failed
    ELSE Failed

\* pub rule word() = word_quoted() / word_unquoted()
owned_parse_word(s, pos) ==
    LET q == owned_parse_word_quoted(s, pos)
    IN  IF q.ok THEN q ELSE owned_parse_word_unquoted(s, pos)

RECURSIVE owned_namechar_star(_, _)
owned_namechar_star(s, pos) ==
    IF pos < Len(s) /\ s[pos + 1] \in NameChar
    THEN owned_namechar_star(s, pos + 1)
    ELSE pos

\* pub rule name() -> String = n:$([name characters]+) { n.to_string() }
owned_parse_name(s, pos) ==
    LET end == owned_namechar_star(s, pos)
    IN  IF end > pos THEN Matched(end, to_string(s, pos, end)) ELSE Failed

\* pub rule reference() = "$" v:name() { Var(v) }
owned_parse_reference(s, pos) ==
    IF pos < Len(s) /\ s[pos + 1] = "$"
    THEN LET v == owned_parse_name(s, pos + 1)
         IN  IF v.ok THEN Matched(v.pos, OwnedVar(v.val)) ELSE Failed
    ELSE Failed

\* pub rule arg() = reference() / word()
owned_parse_arg(s, pos) ==
    LET r == owned_parse_reference(s, pos)
    IN  IF r.ok THEN r ELSE owned_parse_word(s, pos)

\* arg() ** _
RECURSIVE owned_args_loop(_, _, _)
owned_args_loop(s, pos, acc) ==
    LET sep == IF acc = <<>> THEN Matched(pos, <<>>) ELSE owned_parse_ws(s, pos)
    IN  IF ~sep.ok THEN Matched(pos, acc)
        ELSE LET e == owned_parse_arg(s, sep.pos)
             IN  IF e.ok THEN owned_args_loop(s, e.pos, Append(acc, e.val))
                 ELSE Matched(pos, acc)

owned_parse_args(s, pos) == owned_args_loop(s, pos, <<>>)

\* pub rule list() = "(" x:(arg() ** _) ")" { x } / x:(arg() ** _) { x }
owned_parse_list(s, pos) ==
    LET x == owned_parse_args(s, pos + 1)
        paren == IF pos < Len(s) /\ s[pos + 1] = "("
                    /\ x.pos < Len(s) /\ s[x.pos + 1] = ")"
                 THEN Matched(x.pos + 1, x.val)
                 ELSE Failed
    IN  IF paren.ok THEN paren ELSE owned_parse_args(s, pos)

\* pub rule assignment() = n:arg() _ "=" _ x:list() { Assignment(n, x) }
owned_parse_assignment(s, pos) ==
    LET n == owned_parse_arg(s, pos)
        w1 == owned_parse_ws(s, n.pos)
        w2 == owned_parse_ws(s, w1.pos + 1)
        x == owned_parse_list(s, w2.pos)
    IN  IF n.ok /\ w1.ok /\ w1.pos < Len(s) /\ s[w1.pos + 1] = "=" /\ w2.ok
        THEN Matched(x.pos, Assignment(n.val, x.val))
        ELSE Failed

\* pub rule command() = n:arg() _ x:list() { Command(n, x) }
owned_parse_command(s, pos) ==
    LET n == owned_parse_arg(s, pos)
        w == owned_parse_ws(s, n.pos)
        x == owned_parse_list(s, w.pos)
    IN  IF n.ok /\ w.ok THEN Matched(x.pos, Command(n.val, x.val)) ELSE Failed

\* The public functions of the owned grammar.
owned_word_unquoted(s) == Entry(s, owned_parse_word_unquoted(s, 0))

owned_word_quoted(s) == Entry(s, owned_parse_word_quoted(s, 0))

owned_word(s) == Entry(s, owned_parse_word(s, 0))

owned_name(s) == Entry(s, owned_parse_name(s, 0))

owned_reference(s) == Entry(s, owned_parse_reference(s, 0))

owned_arg(s) == Entry(s, owned_parse_arg(s, 0))

owned_list(s) == Entry(s, owned_parse_list(s, 0))

owned_assignment(s) == Entry(s, owned_parse_assignment(s, 0))

owned_command(s) == Entry(s, owned_parse_command(s, 0))

\* ------------------------------------------------------------------ state
\* input  : the text handed to the entry rule
\* shape  : how the input was put together (head, glue, form, parts, sep)
\* rule   : the entry rule that was called, "none" before the call
\* result : what the borrowed grammar returned
\* owned  : what the owned grammar returned on the same input
VARIABLES input, shape, rule, result, owned

vars == <<input, shape, rule, result, owned>>

\* All strings over Alphabet of length at most n.
StringsUpTo(n) == UNION {[1..k -> Alphabet] : k \in 0..n}

RawShape == [head |-> <<>>, glue |-> <<>>, form |-> "raw", parts |-> <<>>, sep |-> <<>>]

Init ==
    /\ input \in StringsUpTo(MaxLen)
    /\ shape = RawShape
    /\ rule = "none"
    /\ result = NotCalled
    /\ owned = NotCalled

\* ---- inputs put together from argument texts
\* Unquoted words, single-quoted strings and $name references.
UnquotedTexts == {<<"a">>, <<"%", "=">>}

QuotedTexts == {<<"'", "'">>, <<"'", " ", "(", "'">>}

RefTexts == {<<"$", "a">>}

ArgTexts == UnquotedTexts \cup QuotedTexts \cup RefTexts

\* What may stand before the list: nothing, or a head and what follows it.
HeadTexts == {<<"a">>, <<"%", "a">>, <<"$", "a">>, <<"=", "a">>}

GlueTexts ==
    {<<>>, <<" ">>, <<"\t">>, <<"=">>, <<" ", "=">>, <<"=", " ">>,
     <<" ", "=", " ">>, <<"\t", "=", "\t">>}

SepTexts == {<<" ">>, <<"\t">>, <<" ", " ">>, <<" ", "\t">>, <<"\n">>}

\* parts[1] sep parts[2] sep ... parts[n]
RECURSIVE Join(_, _)
Join(parts, sep) ==
    IF parts = <<>> THEN <<>>
    ELSE IF Len(parts) = 1 THEN parts[1]
    ELSE parts[1] \o sep \o Join(Tail(parts), sep)

Build(sh) ==
    sh.head \o sh.glue
    \o (IF sh.form = "paren" THEN <<"(">> ELSE <<>>)
    \o Join(sh.parts, sh.sep)
    \o (IF sh.form = "paren" THEN <<")">> ELSE <<>>)

Shapes ==
    {sh \in [head : HeadTexts \cup {<<>>}, glue : GlueTexts, form : {"bare", "paren"},
             parts : UNION {[1..k -> ArgTexts] : k \in 0..MaxArgs}, sep : SepTexts] :
        sh.head = <<>> => sh.glue = <<>>}

InitShaped ==
    /\ shape \in Shapes
    /\ input = Build(shape)
    /\ rule = "none"
    /\ result = NotCalled
    /\ owned = NotCalled

InitWord ==
    /\ input \in UNION {[1..k -> WordAlphabet] : k \in 0..MaxWordLen}
    /\ shape = RawShape
    /\ rule = "none"
    /\ result = NotCalled
    /\ owned = NotCalled

Call(r, res, own) ==
    /\ rule = "none"
    /\ rule' = r
    /\ result' = res
    /\ owned' = own
    /\ UNCHANGED <<input, shape>>

CallWordUnquoted == Call("word_unquoted", word_unquoted(input), owned_word_unquoted(input))

CallWordQuoted == Call("word_quoted", word_quoted(input), owned_word_quoted(input))

CallWord == Call("word", word(input), owned_word(input))

CallName == Call("name", name(input), owned_name(input))

CallReference == Call("reference", reference(input), owned_reference(input))

CallArg == Call("arg", arg(input), owned_arg(input))

CallList == Call("list", list(input), owned_list(input))

CallAssignment == Call("assignment", assignment(input), owned_assignment(input))

CallCommand == Call("command", command(input), owned_command(input))

Next ==
    \/ CallWordUnquoted
    \/ CallWordQuoted
    \/ CallWord
    \/ CallName
    \/ CallReference
    \/ CallArg
    \/ CallList
    \/ CallAssignment
    \/ CallCommand

Spec == Init /\ [][Next]_vars

SpecShaped == InitShaped /\ [][Next]_vars

SpecWord == InitWord /\ [][Next]_vars

SpecAll == (Init \/ InitShaped) /\ [][Next]_vars

\* ------------------------------------------------------- reading results
\* The text of the AST a borrowed result denotes over its input: every slice
\* replaced by the characters it covers.
ArgText(s, a) == [tag |-> a.tag, text |-> slice(s, a.lo, a.hi)]

ListText(s, x) == [i \in 1..Len(x) |-> ArgText(s, x[i])]

StmtText(s, st) ==
    [tag |-> st.tag, head |-> ArgText(s, st.head), list |-> ListText(s, st.list)]

\* AST values by their text.
VarOf(text) == [tag |-> "Var", text |-> text]

WordOf(text) == [tag |-> "Word", text |-> text]

Called(r) == rule = r


\* What an argument text is to parse to: Var(n) for $n, Word(inner text) for a
\* quoted string, Word(text) for an unquoted word.
ExpectedArg(text) ==
    IF text[1] = "$" THEN VarOf(Tail(text))
    ELSE IF text[1] = "'" THEN WordOf(SubSeq(text, 2, Len(text) - 1))
    ELSE WordOf(text)

ExpectedList(parts) == [i \in 1..Len(parts) |-> ExpectedArg(parts[i])]

IsName(text) == text # <<>> /\ \A i \in 1..Len(text) : text[i] \in NameChar

IsRef(text) == Len(text) >= 2 /\ text[1] = "$" /\ IsName(Tail(text))

SingleSep(sh) == sh.sep \in {<<" ">>, <<"\t">>}

\* ------------------------------------------------------------------ claims
\* C1: reference("$" + n) succeeds with Var(n) for every non-empty name n;
\* reference("$") fails, and reference("$" + t) fails for every t holding a
\* character outside the name alphabet.
C1_Reference ==
    (Called("reference") /\ input # <<>> /\ input[1] = "$") =>
        IF IsName(Tail(input))
        THEN result.tag = "Ok" /\ ArgText(input, result.val) = VarOf(Tail(input))
        ELSE result = Err

C1_Witness ==
    /\ Called("reference")
    /\ input = <<"$", "a", "%">>
    /\ result.tag = "Ok"

\* C2: a list of argument texts joined by one space or tab parses, bare and
\* in parentheses alike, to one element per argument in source order; the
\* empty sequence gives the empty list in both forms.
C2_List ==
    (Called("list") /\ shape.form # "raw" /\ shape.head = <<>> /\ SingleSep(shape)) =>
        /\ result.tag = "Ok"
        /\ ListText(input, result.val) = ExpectedList(shape.parts)

C2_Witness ==
    /\ Called("list")
    /\ shape.form = "paren"
    /\ shape.parts = << <<"$", "a">>, <<"'", " ", "(", "'">>, <<"%", "=">> >>
    /\ shape.sep = <<"\t">>
    /\ result.tag = "Ok"
    /\ Len(result.val) = 3

\* C3: the assignment target is parsed by arg: n = v gives
\* Assignment(Word(n), list(v)) and $n = v gives Assignment(Var(n), list(v)),
\* v in bare or parenthesized form.
C3_AssignmentTarget ==
    (/\ Called("assignment")
     /\ shape.form # "raw"
     /\ (IsName(shape.head) \/ IsRef(shape.head))
     /\ shape.glue = <<" ", "=", " ">>
     /\ SingleSep(shape)) =>
        /\ result.tag = "Ok"
        /\ StmtText(input, result.val)
             = Assignment(ExpectedArg(shape.head), ExpectedList(shape.parts))

C3_Witness ==
    /\ Called("assignment")
    /\ shape.head = <<"$", "a">>
    /\ shape.glue = <<" ", "=", " ">>
    /\ shape.form = "paren"
    /\ Len(shape.parts) = 2
    /\ result.tag = "Ok"
    /\ result.val.head.tag = "Var"

\* C4: command needs horizontal whitespace between the name and the list:
\* n, a space and arguments joined by single spaces (none included) give
\* Command(arg(n), arguments); n alone fails.
C4_Command ==
    (Called("command") /\ shape.form = "bare" /\ shape.head # <<>>) =>
        /\ (shape.glue = <<" ">> /\ shape.sep = <<" ">>) =>
              /\ result.tag = "Ok"
              /\ StmtText(input, result.val)
                   = Command(ExpectedArg(shape.head), ExpectedList(shape.parts))
        /\ (shape.glue = <<>> /\ shape.parts = <<>>) => result = Err

C4_Witness ==
    /\ Called("command")
    /\ shape.form = "bare"
    /\ shape.head = <<"$", "a">>
    /\ shape.glue = <<" ">>
    /\ shape.parts = <<>>
    /\ result.tag = "Ok"
    /\ result.val.list = <<>>

\* C5: word_quoted("'" + s + "'") succeeds with Word(s) for every s without a
\* quote, whatever else s holds; an input that starts with a quote and has no
\* closing quote fails.
C5_WordQuoted ==
    (Called("word_quoted") /\ input # <<>> /\ input[1] = "'") =>
        LET n == Len(input)
            NoQuote(lo, hi) == \A i \in lo..hi : input[i] # "'"
        IN  /\ (n >= 2 /\ input[n] = "'" /\ NoQuote(2, n - 1)) =>
                  /\ result.tag = "Ok"
                  /\ ArgText(input, result.val) = WordOf(SubSeq(input, 2, n - 1))
            /\ NoQuote(2, n) => result = Err

C5_Witness ==
    /\ Called("word_quoted")
    /\ input = <<"'", "$", "'">>
    /\ result.tag = "Ok"

NoSpecial(text) == \A i \in 1..Len(text) : text[i] \notin Special

\* C6: word_unquoted(s) succeeds exactly when s is non-empty and holds none of
\* the twelve special characters, and then returns Word(s); a list argument
\* of ordinary characters is one Word and is never split.
C6_WordUnquoted ==
    /\ Called("word_unquoted") =>
          IF input # <<>> /\ NoSpecial(input)
          THEN result.tag = "Ok" /\ ArgText(input, result.val) = WordOf(input)
          ELSE result = Err
    /\ (Called("list") /\ input # <<>> /\ NoSpecial(input)
        /\ \A i \in 1..Len(input) : input[i] # "'") =>
          /\ result.tag = "Ok"
          /\ ListText(input, result.val) = <<WordOf(input)>>

C6_Witness ==
    /\ Called("list")
    /\ input = <<"-", "a", "=">>
    /\ result.tag = "Ok"
    /\ Len(result.val) = 1

\* The inputs of C7: a name, '=' with or without a space on either side, and
\* one unquoted word.
C7_Case ==
    /\ Called("assignment")
    /\ shape.form = "bare"
    /\ IsName(shape.head)
    /\ shape.glue \in {<<"=">>, <<" ", "=">>, <<"=", " ">>, <<" ", "=", " ">>}
    /\ Len(shape.parts) = 1
    /\ shape.parts[1] \in UnquotedTexts

C7_Accepted ==
    /\ result.tag = "Ok"
    /\ StmtText(input, result.val)
         = Assignment(WordOf(shape.head), <<WordOf(shape.parts[1])>>)

\* C7 as claimed: the whitespace on each side of '=' is optional, t=v, t =v,
\* t= v and t = v are all accepted with Assignment(Word(t), [Word(v)]).
C7_OptionalWhitespace == C7_Case => C7_Accepted

\* C7 as amended: the whitespace on each side of '=' is required; t = v is
\* accepted with Assignment(Word(t), [Word(v)]), t=v, t =v and t= v are rejected.
C7_RequiredWhitespace ==
    C7_Case => IF shape.glue = <<" ", "=", " ">> THEN C7_Accepted ELSE result = Err

C7_Witness ==
    /\ C7_Case
    /\ shape.glue = <<" ", "=">>
    /\ result = Err

\* C8: arguments joined by any non-empty run of spaces and tabs are accepted
\* by list, bare and in parentheses, with the same result as joined by one
\* space; two arguments joined by a newline are rejected.
C8_SeparatorRuns ==
    (Called("list") /\ shape.form # "raw" /\ shape.head = <<>> /\ Len(shape.parts) >= 2) =>
        IF shape.sep = <<"\n">>
        THEN result = Err
        ELSE /\ result.tag = "Ok"
             /\ ListText(input, result.val) = ExpectedList(shape.parts)

\* The first argument of a command result is an unquoted '=' standing
\* directly after horizontal whitespace.
BareEquals(s, x) ==
    /\ x # <<>>
    /\ ArgText(s, x[1]) = WordOf(<<"=">>)
    /\ x[1].lo >= 1
    /\ s[x[1].lo] \in HSpace

\* C9 as claimed: assignment(s) = Assignment(t, v) exactly when
\* command(s) = Command(t, [Word("=")] followed by v).
C9_Indistinguishable ==
    /\ (Called("assignment") /\ result.tag = "Ok") =>
          LET c == command(input)
          IN  /\ c.tag = "Ok"
              /\ StmtText(input, c.val)
                   = Command(ArgText(input, result.val.head),
                             <<WordOf(<<"=">>)>> \o ListText(input, result.val.list))
    /\ (Called("command") /\ result.tag = "Ok" /\ result.val.list # <<>>
        /\ ArgText(input, result.val.list[1]) = WordOf(<<"=">>)) =>
          LET a == assignment(input)
          IN  /\ a.tag = "Ok"
              /\ StmtText(input, a.val)
                   = Assignment(ArgText(input, result.val.head),
                                Tail(ListText(input, result.val.list)))

\* C9 as amended: when the value is written bare and is not empty, and the
\* '=' is unquoted, assignment(s) = Assignment(t, v) exactly when
\* command(s) = Command(t, [Word("=")] followed by v).
C9_BareNonEmpty ==
    /\ (Called("assignment") /\ result.tag = "Ok" /\ result.val.list # <<>>
        /\ input[Len(input)] # ")") =>
          LET c == command(input)
          IN  /\ c.tag = "Ok"
              /\ StmtText(input, c.val)
                   = Command(ArgText(input, result.val.head),
                             <<WordOf(<<"=">>)>> \o ListText(input, result.val.list))
    /\ (Called("command") /\ result.tag = "Ok" /\ BareEquals(input, result.val.list)
        /\ Len(result.val.list) >= 2) =>
          LET a == assignment(input)
          IN  /\ a.tag = "Ok"
              /\ StmtText(input, a.val)
                   = Assignment(ArgText(input, result.val.head),
                                Tail(ListText(input, result.val.list)))

C9_Witness ==
    /\ Called("command")
    /\ result.tag = "Ok"
    /\ BareEquals(input, result.val.list)
    /\ Len(result.val.list) = 3
    /\ result.val.head.tag = "Var"

\* The AST by text of what the borrowed rule r returned on s.
ReadResult(r, s, v) ==
    CASE r = "name" -> slice(s, v.lo, v.hi)
      [] r \in {"word_unquoted", "word_quoted", "word", "reference", "arg"} -> ArgText(s, v)
      [] r = "list" -> ListText(s, v)
      [] r \in {"assignment", "command"} -> StmtText(s, v)

\* C10: on every input and for every public rule the borrowed and the owned
\* grammar both fail, or both succeed with the same variants and the same
\* text in every Word and Var.
C10_BorrowedOwnedAgree ==
    (rule # "none") =>
        /\ result.tag = owned.tag
        /\ result.tag = "Ok" => ReadResult(rule, input, result.val) = owned.val

C10_Witness ==
    /\ Called("assignment")
    /\ shape.head = <<"$", "a">>
    /\ shape.parts = << <<"'", " ", "(", "'">>, <<"%", "=">> >>
    /\ result.tag = "Ok"
    /\ owned.tag = "Ok"
    /\ owned.val.list[1] = WordOf(<<" ", "(">>)

\* The end of the longest run of ordinary characters of s that starts at p,
\* read off the text.
OrdinaryRunEnd(s, p) ==
    CHOOSE e \in p..Len(s) :
        /\ \A i \in (p + 1)..e : s[i] \notin Special
        /\ e = Len(s) \/ s[e + 1] \in Special

\* word_quoted() consumes the quote at p and the text after it and then
\* fails: there is no closing quote.
OpenQuoteAt(s, p) == p < Len(s) /\ s[p + 1] = "'" /\ \A i \in (p + 2)..Len(s) : s[i] # "'"

\* reference() consumes the '$' at p and then fails: no name follows.
BareDollarAt(s, p) ==
    p < Len(s) /\ s[p + 1] = "$" /\ (p + 1 = Len(s) \/ s[p + 2] \notin NameChar)

\* The parenthesized form consumes the '(' at p and its arguments and then
\* fails: no ')' follows them.
OpenParenAt(s, p) ==
    /\ p < Len(s)
    /\ s[p + 1] = "("
    /\ LET x == parse_args(s, p + 1)
       IN  x.pos = Len(s) \/ s[x.pos + 1] # ")"

\* C11: a rule or alternative that fails after matching a prefix leaves the
\* cursor where the attempt began, and the next alternative starts there:
\* word_unquoted after an unclosed quote takes the quote with it, arg after a
\* '$' without a name fails without consuming the '$', the bare list after a
\* failed parenthesized form is the empty match at the entry position, and a
\* separator whose argument fails is not consumed.
C11_AtomicFailure ==
    /\ Called("word") =>
          /\ \A p \in 0..Len(input) :
                OpenQuoteAt(input, p) =>
                    parse_word(input, p)
                      = Matched(OrdinaryRunEnd(input, p), Word(p, OrdinaryRunEnd(input, p)))
          /\ OpenQuoteAt(input, 0) =>
                IF NoSpecial(input)
                THEN result.tag = "Ok" /\ ArgText(input, result.val) = WordOf(input)
                ELSE result = Err
    /\ Called("arg") =>
          /\ \A p \in 0..Len(input) :
                BareDollarAt(input, p) =>
                    /\ ~parse_arg(input, p).ok
                    /\ parse_args(input, p) = Matched(p, <<>>)
          /\ BareDollarAt(input, 0) => result = Err
    /\ Called("list") =>
          /\ \A p \in 0..Len(input) :
                /\ OpenParenAt(input, p) => parse_list(input, p) = Matched(p, <<>>)
                /\ LET x == parse_args(input, p)
                   IN  /\ x.val = <<>> => x.pos = p
                       /\ x.pos > p => input[x.pos] \notin HSpace
          /\ OpenParenAt(input, 0) => result = Err
          /\ (input # <<>> /\ input[Len(input)] \in HSpace) => result = Err

C11_Witness ==
    /\ Called("list")
    /\ input = <<"a", " ", "'", "a">>
    /\ result.tag = "Ok"
    /\ ListText(input, result.val) = <<WordOf(<<"a">>), WordOf(<<"'", "a">>)>>

====
